---- MODULE Spec2Model ----
(***************************************************************************)
(* raug-server: the OSC command protocol (graph.rs), the session           *)
(* (server.rs) and the UDP transport loop (main.rs).                       *)
(***************************************************************************)
EXTENDS Integers, Sequences, FiniteSets, TLC

\* ------------------------------------------------------------------ bounds
MaxDatagrams == 2      \* datagrams the environment delivers in one run
MaxBundleLen == 3      \* packets of a flat bundle
MaxChannel == 5        \* largest mixer channel an /add_to_mix message names
MaxRenders == 2        \* render sessions the engine runs at once before play fails
IntBits == 8           \* width the model gives i32 and u32 (usize is twice as wide)

\* main.rs: Args defaults.
Inputs == 0
Outputs == 2

\* ------------------------------------------------------------- wire values
\* rosc::OscType, restricted to the four types the protocol uses.  Every
\* value is a record of one shape: i carries Int, Float and Bool payloads,
\* s carries String payloads.
OscInt(i) == [t |-> "Int", i |-> i, s |-> ""]
OscFloat(i) == [t |-> "Float", i |-> i, s |-> ""]
OscBool(b) == [t |-> "Bool", i |-> IF b THEN 1 ELSE 0, s |-> ""]
OscString(s) == [t |-> "String", i |-> 0, s |-> s]

\* rosc::OscPacket: a message or a bundle of packets.
OscMessage(addr, args) ==
    [kind |-> "Message", addr |-> addr, args |-> args, content |-> <<>>]
OscBundle(content) ==
    [kind |-> "Bundle", addr |-> "", args |-> <<>>, content |-> content]

\* Rust `as` casts between the integer widths of the protocol.
\* i32 -> usize sign-extends, i32 -> u32 and usize -> i32 keep the low bits.
AsUsize(i) == IF i < 0 THEN i + 2^(2 * IntBits) ELSE i
AsU32(i) == i % (2^IntBits)
AsI32(n) == LET m == n % (2^IntBits) IN IF m >= 2^(IntBits - 1) THEN m - 2^IntBits ELSE m

\* --------------------------------------------------------------- operations
\* graph.rs: enum NameOrIndex.
Name(s) == [v |-> "Name", name |-> s, index |-> 0]
Index(i) == [v |-> "Index", name |-> "", index |-> i]
NoPort == [v |-> "None", name |-> "", index |-> 0]

\* graph.rs: enum GraphOp, as records of one shape.  a is mixer_channel /
\* source / replaced, b is source (AddToMix) / target / replacement, c is the
\* constant payload, p and q are source_output and target_input.
GraphOp(op, a, b, c, name, p, q) ==
    [op |-> op, a |-> a, b |-> b, c |-> c, name |-> name, p |-> p, q |-> q]
Play == GraphOp("Play", 0, 0, 0, "", NoPort, NoPort)
Stop == GraphOp("Stop", 0, 0, 0, "", NoPort, NoPort)
AddConstantF32(c) == GraphOp("AddConstantF32", 0, 0, c, "", NoPort, NoPort)
AddConstantBool(c) == GraphOp("AddConstantBool", 0, 0, c, "", NoPort, NoPort)
AddConstantString(s) == GraphOp("AddConstantString", 0, 0, 0, s, NoPort, NoPort)
AddProcessor(name) == GraphOp("AddProcessor", 0, 0, 0, name, NoPort, NoPort)
AddToMix(mixer_channel, source, source_output) ==
    GraphOp("AddToMix", mixer_channel, source, 0, "", source_output, NoPort)
Connect(source, source_output, target, target_input) ==
    GraphOp("Connect", source, target, 0, "", source_output, target_input)
ReplaceNode(replaced, replacement) ==
    GraphOp("ReplaceNode", replaced, replacement, 0, "", NoPort, NoPort)

\* Outcomes of a fallible call: Ok(value), Err(error) or a panic.
ParseOk(ops) == [tag |-> "Ok", ops |-> ops, err |-> ""]
ParseErr(e) == [tag |-> "Err", ops |-> <<>>, err |-> e]
ParsePanic(site) == [tag |-> "Panic", ops |-> <<>>, err |-> site]

\* InvalidGraphOpError as it would be if it did not keep the address.
InvalidGraphOpError_bare(addr) == "InvalidGraphOpError()"

\* graph.rs: struct InvalidGraphOpError(String), the error of an address
\* that names no operation; it carries the address.
InvalidGraphOpError(addr) == "InvalidGraphOpError(" \o addr \o ")"

\* graph.rs: impl TryFrom<OscType> for NameOrIndex.
NameOrIndex_try_from(value) ==
    CASE value.t = "String" -> [tag |-> "Ok", port |-> Name(value.s)]
      [] value.t = "Int" -> [tag |-> "Ok", port |-> Index(AsU32(value.i))]
      [] OTHER -> [tag |-> "Err", port |-> NoPort]

\* `<arg>.clone().int().unwrap()` and its siblings: a panic unless the
\* argument has the wire type asked for.
HasType(arg, t) == arg.t = t
AllTyped(args, types) == \A i \in 1..Len(types) : HasType(args[i], types[i])

\* graph.rs: GraphOp::try_from_osc, the Message arm.  `let [..] = &args[..]
\* else { unreachable!() }` panics on any other arity; `.unwrap()` panics on
\* any other wire type; /play and /stop never look at their arguments.
try_from_message(msg) ==
    LET args == msg.args
        n == Len(args)
    IN CASE msg.addr = "/play" -> ParseOk(<<Play>>)
         [] msg.addr = "/stop" -> ParseOk(<<Stop>>)
         [] msg.addr = "/add_to_mix" ->
              IF n # 3 THEN ParsePanic("unreachable")
              ELSE IF ~AllTyped(args, <<"Int", "Int", "Int">>) THEN ParsePanic("unwrap")
              ELSE ParseOk(<<AddToMix(AsUsize(args[1].i), AsUsize(args[2].i),
                                       Index(AsU32(args[3].i)))>>)
         [] msg.addr = "/add_constant_f32" ->
              IF n # 1 THEN ParsePanic("unreachable")
              ELSE IF ~HasType(args[1], "Float") THEN ParsePanic("unwrap")
              ELSE ParseOk(<<AddConstantF32(args[1].i)>>)
         [] msg.addr = "/add_constant_bool" ->
              IF n # 1 THEN ParsePanic("unreachable")
              ELSE IF ~HasType(args[1], "Bool") THEN ParsePanic("unwrap")
              ELSE ParseOk(<<AddConstantBool(args[1].i)>>)
         [] msg.addr = "/add_constant_string" ->
              IF n # 1 THEN ParsePanic("unreachable")
              ELSE IF ~HasType(args[1], "String") THEN ParsePanic("unwrap")
              ELSE ParseOk(<<AddConstantString(args[1].s)>>)
         [] msg.addr = "/add_processor" ->
              IF n # 1 THEN ParsePanic("unreachable")
              ELSE IF ~HasType(args[1], "String") THEN ParsePanic("unwrap")
              ELSE ParseOk(<<AddProcessor(args[1].s)>>)
         [] msg.addr = "/connect" ->
              IF n # 4 THEN ParsePanic("unreachable")
              ELSE IF ~HasType(args[1], "Int") THEN ParsePanic("unwrap")
              ELSE LET so == NameOrIndex_try_from(args[2]) IN
                   IF so.tag = "Err" THEN ParseErr("InvalidNameOrIndexError")
                   ELSE IF ~HasType(args[3], "Int") THEN ParsePanic("unwrap")
                   ELSE LET ti == NameOrIndex_try_from(args[4]) IN
                        IF ti.tag = "Err" THEN ParseErr("InvalidNameOrIndexError")
                        ELSE ParseOk(<<Connect(AsUsize(args[1].i), so.port,
                                                AsUsize(args[3].i), ti.port)>>)
         [] msg.addr = "/replace_node" ->
              IF n # 2 THEN ParsePanic("unreachable")
              ELSE IF ~AllTyped(args, <<"Int", "Int">>) THEN ParsePanic("unwrap")
              ELSE ParseOk(<<ReplaceNode(AsUsize(args[1].i), AsUsize(args[2].i))>>)
         [] OTHER -> ParseErr(InvalidGraphOpError(msg.addr))

\* graph.rs: GraphOp::try_from_osc.  The Bundle arm extends `ops` with each
\* nested packet's operations in order; `?` returns the first error, and a
\* panic of a nested call unwinds through the loop.
RECURSIVE try_from_osc(_)
RECURSIVE try_from_bundle(_, _)
RECURSIVE try_from_bundle_prepending(_, _)
RECURSIVE try_from_bundle_skipping(_, _)

\* The Bundle arm as it would be if each nested packet's operations were put
\* in front of the ones collected so far.
try_from_bundle_prepending(content, ops) ==
    IF content = <<>> THEN ParseOk(ops)
    ELSE LET r == try_from_osc(Head(content)) IN
         IF r.tag = "Ok" THEN try_from_bundle_prepending(Tail(content), r.ops \o ops)
         ELSE r

\* The Bundle arm as it would be if a nested packet that is rejected were
\* skipped and the others kept.
try_from_bundle_skipping(content, ops) ==
    IF content = <<>> THEN ParseOk(ops)
    ELSE LET r == try_from_osc(Head(content)) IN
         IF r.tag = "Ok" THEN try_from_bundle_skipping(Tail(content), ops \o r.ops)
         ELSE IF r.tag = "Err" THEN try_from_bundle_skipping(Tail(content), ops)
         ELSE r

try_from_bundle(content, ops) ==
    IF content = <<>> THEN ParseOk(ops)
    ELSE LET r == try_from_osc(Head(content)) IN
         IF r.tag = "Ok" THEN try_from_bundle(Tail(content), ops \o r.ops)
         ELSE r

try_from_osc(packet) ==
    IF packet.kind = "Message" THEN try_from_message(packet)
    ELSE try_from_bundle(packet.content, <<>>)

\* graph.rs: impl Into<OscType> for NameOrIndex.
NameOrIndex_into(port) ==
    IF port.v = "Name" THEN OscString(port.name) ELSE OscInt(AsI32(port.index))

\* graph.rs: GraphOp::to_osc.
GraphOp_to_osc(op) ==
    CASE op.op = "Play" -> OscMessage("/play", <<>>)
      [] op.op = "Stop" -> OscMessage("/stop", <<>>)
      [] op.op = "AddToMix" ->
           OscMessage("/add_to_mix",
                      <<OscInt(AsI32(op.a)), OscInt(AsI32(op.b)), NameOrIndex_into(op.p)>>)
      [] op.op = "AddConstantF32" -> OscMessage("/add_constant_f32", <<OscFloat(op.c)>>)
      [] op.op = "AddConstantBool" -> OscMessage("/add_constant_bool", <<OscBool(op.c = 1)>>)
      [] op.op = "AddConstantString" ->
           OscMessage("/add_constant_string", <<OscString(op.name)>>)
      [] op.op = "AddProcessor" -> OscMessage("/add_processor", <<OscString(op.name)>>)
      [] op.op = "Connect" ->
           OscMessage("/connect", <<OscInt(AsI32(op.a)), NameOrIndex_into(op.p),
                                    OscInt(AsI32(op.b)), NameOrIndex_into(op.q)>>)
      [] op.op = "ReplaceNode" ->
           OscMessage("/replace_node", <<OscInt(AsI32(op.a)), OscInt(AsI32(op.b))>>)

\* ------------------------------------------------------------------ session
\* The engine's graph as the session uses it: nodes[i + 1] is the kind of the
\* node with index i, edges are connections between ports.
Edge(src, src_out, dst, dst_in) ==
    [src |-> src, src_out |-> src_out, dst |-> dst, dst_in |-> dst_in]

\* Port tables of the node kinds the session creates (resolved by the
\* engine's NodeBuilder::input / NodeBuilder::output).
InputNames(kind) ==
    CASE kind \in {"Add", "Sub", "Mul", "Div"} -> <<"a", "b">>
      [] kind = "Neg" -> <<"a">>
      [] kind \in {"SineOscillator", "BlSawOscillator"} -> <<"frequency">>
      [] kind \in {"Passthrough", "Output"} -> <<"in">>
      [] OTHER -> <<>>
OutputNames(kind) ==
    CASE kind = "Output" -> <<>>
      [] OTHER -> <<"out">>

NodeExists(s, i) == i >= 0 /\ i < Len(s.nodes)
KindOf(s, i) == s.nodes[i + 1]

\* graph.rs: impl IntoIndex for &NameOrIndex.  A name resolves through the
\* node's port table, an index is taken as it is.  -1 stands for None.
PositionOf(names, name) ==
    IF \E k \in 1..Len(names) : names[k] = name
    THEN (CHOOSE k \in 1..Len(names) : names[k] = name) - 1
    ELSE -1
into_input_idx(port, kind) ==
    IF port.v = "Name" THEN PositionOf(InputNames(kind), port.name) ELSE port.index
into_output_idx(port, kind) ==
    IF port.v = "Name" THEN PositionOf(OutputNames(kind), port.name) ELSE port.index

\* Graph::node / Processor::node: append a node, its index is the old count.
add_node(s, kind) == [s EXCEPT !.nodes = Append(@, kind)]

\* The engine's connect on resolved indices: whether it accepts, and the
\* edge set after it (an input port holds one connection).
CanConnect(s, src, src_out, dst, dst_in) ==
    /\ NodeExists(s, src) /\ NodeExists(s, dst)
    /\ src_out >= 0 /\ src_out < Len(OutputNames(KindOf(s, src)))
    /\ dst_in >= 0 /\ dst_in < Len(InputNames(KindOf(s, dst)))
connect_edges(s, src, src_out, dst, dst_in) ==
    [s EXCEPT !.edges = {e \in @ : ~(e.dst = dst /\ e.dst_in = dst_in)}
                          \cup {Edge(src, src_out, dst, dst_in)}]

\* `&a + &b` on nodes: a new Add node fed by output 0 of a and of b.
add_nodes(s, a, b) ==
    LET sum == Len(s.nodes)
        s1 == add_node(s, "Add")
    IN [s1 EXCEPT !.edges = @ \cup {Edge(a, 0, sum, 0), Edge(b, 0, sum, 1)}]

\* server.rs: Server::new.  Graph::new makes the input and output nodes, then
\* two mixer channels, their sum as master, and master on both outputs.
Server_new ==
    LET io == [i \in 1..(Inputs + Outputs) |-> IF i <= Inputs THEN "Input" ELSE "Output"]
        ch0 == Len(io)
        ch1 == ch0 + 1
        master == ch0 + 2
        g == [nodes |-> io \o <<"Passthrough", "Passthrough">>, edges |-> {}]
        g1 == add_nodes(g, ch0, ch1)
    IN [nodes |-> g1.nodes,
        edges |-> g1.edges \cup {Edge(master, 0, Inputs + o, 0) : o \in 0..(Outputs - 1)},
        mixer |-> <<ch0, ch1>>,
        master |-> master,
        running_graph |-> 0,
        live |-> {}]

\* server.rs: Server::num_mixer_channels.
num_mixer_channels(s) == Len(s.mixer)

\* The loop body as it would be if the new channel were put in front of
\* the others.
mixer_push_prepending(s) ==
    LET channel == Len(s.nodes)
        s1 == add_node(s, "Passthrough")
        s2 == add_nodes(s1, s.master, channel)
    IN [s2 EXCEPT !.master = channel + 1, !.mixer = <<channel>> \o @]

\* server.rs: the body of the while loop of Server::mixer_channel: a new
\* Passthrough channel, a new master `&self.master + &channel`, the push.
mixer_push(s) ==
    LET channel == Len(s.nodes)
        s1 == add_node(s, "Passthrough")
        s2 == add_nodes(s1, s.master, channel)
    IN [s2 EXCEPT !.master = channel + 1, !.mixer = Append(@, channel)]

\* server.rs: the loop `let mut i = index; while i >= len { ..; i -= 1; }`.
RECURSIVE mixer_grow(_, _)
mixer_grow(s, i) ==
    IF i >= num_mixer_channels(s) THEN mixer_grow(mixer_push(s), i - 1) ELSE s

\* server.rs: Server::mixer_channel.  `self.mixer[index]` panics when the
\* index is still out of bounds after the loop.
mixer_channel(s, index) ==
    IF index < num_mixer_channels(s)
    THEN [tag |-> "Ok", s |-> s, channel |-> s.mixer[index + 1]]
    ELSE LET s1 == mixer_grow(s, index) IN
         IF index < num_mixer_channels(s1)
         THEN [tag |-> "Ok", s |-> s1, channel |-> s1.mixer[index + 1]]
         ELSE [tag |-> "Panic", s |-> s1, channel |-> 0]

\* server.rs: Server::start_graph.  The engine's play either fails, and `?`
\* returns before the assignment, or yields a new RunningGraph that replaces
\* whatever running_graph held.  running_graph is 0 for None, else the
\* identity of the render session; live holds the sessions that were started
\* and have not ended.  Whether dropping a replaced RunningGraph ends its
\* render session is the engine's business: eng.drop_stops.
start_graph(s, eng) ==
    IF ~eng.play_ok \/ Cardinality(s.live) >= MaxRenders
    THEN [tag |-> "Err", s |-> s, err |-> "EngineError"]
    ELSE LET g == CHOOSE n \in 1..(MaxRenders + 1) :
                      /\ n \notin s.live \cup {s.running_graph}
                      /\ \A m \in 1..(n - 1) : m \in s.live \cup {s.running_graph}
             kept == IF s.running_graph # 0 /\ eng.drop_stops
                     THEN s.live \ {s.running_graph} ELSE s.live
         IN [tag |-> "Ok",
             s |-> [s EXCEPT !.running_graph = g, !.live = kept \cup {g}],
             err |-> ""]

\* server.rs: Server::stop_graph.  `take()` empties running_graph before the
\* engine's stop is called.
stop_graph(s, eng) ==
    IF s.running_graph = 0
    THEN [tag |-> "Ok", s |-> s, err |-> ""]
    ELSE LET g == s.running_graph
             taken == [s EXCEPT !.running_graph = 0]
         IN IF eng.stop_ok
            THEN [tag |-> "Ok", s |-> [taken EXCEPT !.live = @ \ {g}], err |-> ""]
            ELSE [tag |-> "Err",
                  s |-> [taken EXCEPT !.live = IF eng.drop_stops THEN @ \ {g} ELSE @],
                  err |-> "EngineError"]

\* graph.rs: the registry of add_proc_by_name.
Registry == {"Add", "Sub", "Mul", "Div", "Neg", "SineOscillator", "BlSawOscillator"}

\* add_proc_by_name as it would be if it returned the index of the node
\* before the one it made.
add_proc_by_name_reusing(s, name) ==
    IF name \in Registry
    THEN [tag |-> "Ok", s |-> add_node(s, name), node |-> Len(s.nodes) - 1]
    ELSE [tag |-> "Err", s |-> s, node |-> 0]

\* add_proc_by_name as it would be if it made a node before it looked the
\* name up.
add_proc_by_name_allocating(s, name) ==
    IF name \in Registry
    THEN [tag |-> "Ok", s |-> add_node(s, name), node |-> Len(s.nodes)]
    ELSE [tag |-> "Err", s |-> add_node(s, name), node |-> 0]

\* graph.rs: add_proc_by_name.
add_proc_by_name(s, name) ==
    IF name \in Registry
    THEN [tag |-> "Ok", s |-> add_node(s, name), node |-> Len(s.nodes)]
    ELSE [tag |-> "Err", s |-> s, node |-> 0]

\* graph.rs: enum GraphOpResponse.
RespNodeIndex(i) == [r |-> "NodeIndex", index |-> i]
RespNone == [r |-> "None", index |-> 0]

ApplyOk(s, resp) == [tag |-> "Ok", s |-> s, resp |-> resp, err |-> ""]
ApplyErr(s, e) == [tag |-> "Err", s |-> s, resp |-> RespNone, err |-> e]
ApplyPanic(s, site) == [tag |-> "Panic", s |-> s, resp |-> RespNone, err |-> site]

\* graph.rs: GraphOp::apply, the AddToMix arm: mixer_channel, the `todo!()`
\* for a named source output, then the engine's connect, whose outcome the
\* code drops.  An engine that meets a node or port it does not have either
\* reports it (eng.lenient) or panics.
apply_add_to_mix(op, s, eng) ==
    LET ch == mixer_channel(s, op.a) IN
    IF ch.tag = "Panic" THEN ApplyPanic(ch.s, "index out of bounds")
    ELSE IF op.p.v # "Index" THEN ApplyPanic(ch.s, "todo")
    ELSE IF CanConnect(ch.s, op.b, op.p.index, ch.channel, 0)
         THEN ApplyOk(connect_edges(ch.s, op.b, op.p.index, ch.channel, 0), RespNone)
         ELSE IF eng.lenient THEN ApplyOk(ch.s, RespNone)
              ELSE ApplyPanic(ch.s, "engine")

\* The Connect arm as it would be if the source side were connected to the
\* first input of the target before the target input is resolved.
apply_connect_partial(op, s) ==
    IF ~(NodeExists(s, op.a) /\ NodeExists(s, op.b)) THEN ApplyErr(s, "GraphError")
    ELSE LET so == into_output_idx(op.p, KindOf(s, op.a))
             ti == into_input_idx(op.q, KindOf(s, op.b))
         IN IF CanConnect(s, op.a, so, op.b, ti)
            THEN ApplyOk(connect_edges(s, op.a, so, op.b, ti), RespNone)
            ELSE IF CanConnect(s, op.a, so, op.b, 0)
                 THEN ApplyErr(connect_edges(s, op.a, so, op.b, 0), "GraphError")
                 ELSE ApplyErr(s, "GraphError")

\* graph.rs: GraphOp::apply, the Connect arm: Graph::connect resolves both
\* ports against their nodes and fails on what it cannot resolve.
apply_connect(op, s) ==
    IF ~(NodeExists(s, op.a) /\ NodeExists(s, op.b)) THEN ApplyErr(s, "GraphError")
    ELSE LET so == into_output_idx(op.p, KindOf(s, op.a))
             ti == into_input_idx(op.q, KindOf(s, op.b))
         IN IF CanConnect(s, op.a, so, op.b, ti)
            THEN ApplyOk(connect_edges(s, op.a, so, op.b, ti), RespNone)
            ELSE ApplyErr(s, "GraphError")

\* graph.rs: GraphOp::apply, the ReplaceNode arm: the engine's
\* replace_node_gracefully moves every edge of `replaced` to `replacement`
\* and returns a node index, not a Result.
apply_replace_node(op, s, eng) ==
    IF NodeExists(s, op.a) /\ NodeExists(s, op.b)
    THEN LET move(n) == IF n = op.a THEN op.b ELSE n
         IN ApplyOk([s EXCEPT !.edges =
                        {Edge(move(e.src), e.src_out, move(e.dst), e.dst_in) : e \in @}],
                    RespNodeIndex(op.b))
    ELSE IF eng.lenient THEN ApplyOk(s, RespNodeIndex(op.b))
         ELSE ApplyPanic(s, "engine")

\* graph.rs: GraphOp::apply.
apply(op, s, eng) ==
    CASE op.op = "Play" ->
           LET r == start_graph(s, eng) IN
           IF r.tag = "Ok" THEN ApplyOk(r.s, RespNone) ELSE ApplyErr(r.s, r.err)
      [] op.op = "Stop" ->
           LET r == stop_graph(s, eng) IN
           IF r.tag = "Ok" THEN ApplyOk(r.s, RespNone) ELSE ApplyErr(r.s, r.err)
      [] op.op = "AddToMix" -> apply_add_to_mix(op, s, eng)
      [] op.op \in {"AddConstantF32", "AddConstantBool", "AddConstantString"} ->
           ApplyOk(add_node(s, "Constant"), RespNodeIndex(Len(s.nodes)))
      [] op.op = "AddProcessor" ->
           LET r == add_proc_by_name(s, op.name) IN
           IF r.tag = "Ok" THEN ApplyOk(r.s, RespNodeIndex(r.node))
           ELSE ApplyErr(r.s, "UnknownProcessorError")
      [] op.op = "Connect" -> apply_connect(op, s)
      [] op.op = "ReplaceNode" -> apply_replace_node(op, s, eng)

\* graph.rs: GraphOpResponse::to_osc.
to_osc(resp) ==
    IF resp.r = "NodeIndex"
    THEN OscMessage("/response/node_index", <<OscInt(AsI32(resp.index))>>)
    ELSE OscMessage("/response/none", <<>>)

\* The graph the render thread of a playing session reads: the engine's
\* Graph is shared with it, and every call the session makes on the engine
\* (graph.node, `+`, connect, with_inner) is one step against it.
Graph(s) == [nodes |-> s.nodes, edges |-> s.edges]
NoGraph == [nodes |-> <<>>, edges |-> {}]

\* server.rs: the graphs after each engine call of one turn of the loop of
\* mixer_channel: after the Passthrough node, after `&self.master + &channel`.
mixer_push_reads(s) == {Graph(add_node(s, "Passthrough")), Graph(mixer_push(s))}
RECURSIVE mixer_grow_reads(_, _)
mixer_grow_reads(s, i) ==
    IF i >= num_mixer_channels(s)
    THEN mixer_push_reads(s) \cup mixer_grow_reads(mixer_push(s), i - 1)
    ELSE {}

\* graph.rs: the graphs the render thread can read after each engine call
\* GraphOp::apply makes for op: AddToMix calls mixer_channel before its
\* with_inner, every other arm makes one call.
RenderReads(op, s, eng) ==
    {Graph(apply(op, s, eng).s)}
    \cup IF op.op = "AddToMix" THEN mixer_grow_reads(s, op.a) ELSE {}

\* What the engine may answer to the calls an operation makes.
EngineOutcomes(op) ==
    [play_ok : IF op.op = "Play" THEN BOOLEAN ELSE {TRUE},
     stop_ok : IF op.op = "Stop" THEN BOOLEAN ELSE {TRUE},
     drop_stops : IF op.op \in {"Play", "Stop"} THEN BOOLEAN ELSE {TRUE},
     lenient : IF op.op \in {"AddToMix", "ReplaceNode"} THEN BOOLEAN ELSE {TRUE}]

\* ---------------------------------------------------------------- datagrams
\* Messages a client sends alone in a datagram.  Of a fresh session, nodes
\* Inputs + Outputs and the next are the two mixer channels, the one after is
\* the master, and FirstNode is the first node a client creates.
FirstNode == Inputs + Outputs + 3
MixMsgs == {OscMessage("/add_to_mix", <<OscInt(k), OscInt(Inputs + Outputs), OscInt(0)>>)
              : k \in 0..MaxChannel}
GoodMsgs ==
    {OscMessage("/play", <<>>), OscMessage("/stop", <<>>),
     OscMessage("/add_constant_f32", <<OscFloat(1)>>),
     OscMessage("/add_constant_bool", <<OscBool(TRUE)>>),
     OscMessage("/add_constant_string", <<OscString("hi")>>),
     OscMessage("/add_processor", <<OscString("SineOscillator")>>),
     OscMessage("/add_processor", <<OscString("sine")>>),
     OscMessage("/connect", <<OscInt(FirstNode), OscInt(0),
                              OscInt(Inputs + Outputs + 1), OscString("in")>>),
     OscMessage("/connect", <<OscInt(FirstNode), OscString("out"),
                              OscInt(Inputs + Outputs + 1), OscString("nope")>>),
     OscMessage("/replace_node", <<OscInt(FirstNode), OscInt(FirstNode + 1)>>)}
UnknownAddrs == {"/bogus", "/Play"}
BadMsgs ==
    {OscMessage(a, <<>>) : a \in UnknownAddrs} \cup
    {OscMessage("/add_constant_f32", <<>>),
     OscMessage("/add_constant_f32", <<>>),
     OscMessage("/add_constant_f32", <<OscInt(1)>>),
     OscMessage("/add_processor", <<OscInt(1)>>),
     OscMessage("/add_to_mix", <<OscInt(2), OscInt(0), OscString("out")>>),
     OscMessage("/add_to_mix", <<OscInt(2), OscInt(0)>>),
     OscMessage("/connect", <<OscInt(FirstNode), OscFloat(0),
                              OscInt(Inputs + Outputs + 1), OscInt(0)>>),
     OscMessage("/connect", <<OscInt(FirstNode), OscInt(0), OscInt(Inputs + Outputs + 1)>>),
     OscMessage("/replace_node", <<OscInt(FirstNode)>>)}
Msgs == MixMsgs \cup GoodMsgs \cup BadMsgs

\* Messages a client packs into flat bundles, all of them well-formed and
\* naming operations the session can apply.
BundleMsgs ==
    {OscMessage("/play", <<>>), OscMessage("/stop", <<>>),
     OscMessage("/add_constant_f32", <<OscFloat(1)>>)}
FlatBundles ==
    {OscBundle(c) : c \in UNION {[1..n -> BundleMsgs] : n \in 0..MaxBundleLen}}
\* Messages a client packs into nested bundles: two that succeed, one that
\* fails when applied, one that fails when parsed.
NestMsgs ==
    {OscMessage("/play", <<>>), OscMessage("/add_constant_f32", <<OscFloat(1)>>),
     OscMessage("/add_processor", <<OscString("sine")>>),
     OscMessage("/bogus", <<>>)}
NestedBundles ==
    {OscBundle(<<a, OscBundle(<<b, c>>)>>) : a, b, c \in NestMsgs}
    \cup {OscBundle(<<OscBundle(<<a, b>>), c>>) : a, b, c \in NestMsgs}
\* A bundle that creates a node, grows the mixer by one channel and creates
\* another node.
GrowBundles ==
    {OscBundle(<<OscMessage("/add_constant_f32", <<OscFloat(1)>>),
                 OscMessage("/add_to_mix", <<OscInt(2), OscInt(Inputs + Outputs), OscInt(0)>>),
                 OscMessage("/add_processor", <<OscString("SineOscillator")>>)>>)}
Packets == Msgs \cup FlatBundles \cup NestedBundles \cup GrowBundles

\* What recv_from leaves in buf: bytes rosc cannot decode, or the encoding of
\* a packet; NoDatagram before the first datagram and between datagrams.
NoPacket == OscBundle(<<>>)
NoDatagram == [bytes |-> "none", packet |-> NoPacket]
Malformed == [bytes |-> "malformed", packet |-> NoPacket]
Datagrams == {Malformed} \cup {[bytes |-> "packet", packet |-> p] : p \in Packets}

\* ---------------------------------------------------------------- transport
VARIABLES
    pc,          \* "Idle", "Applying", "Sending", "Exited" or "Panicked"
    err,         \* the error server() returned, or the panic, or ""
    received,    \* datagrams received so far
    log,         \* the last line log::error! wrote, or ""
    server,      \* the Server
    buf,         \* the datagram being processed
    ops,         \* operations of the packet still to apply
    responses,   \* responses collected by apply_osc, still to send
    sent,        \* responses sent to client_addr for this packet
    issued,      \* the last NodeIndex a node-creating operation returned, or -1
    observed     \* the graph as the render thread read it during the last operation

vars == <<pc, err, received, log, server, buf, ops, responses, sent, issued, observed>>

\* main.rs: the packet decode_udp gives for buf.
packet == buf.packet

\* main.rs: server(), up to the first recv_from.
Init ==
    /\ pc = "Idle"
    /\ err = ""
    /\ received = 0
    /\ log = ""
    /\ server = Server_new
    /\ buf = NoDatagram
    /\ ops = <<>>
    /\ responses = <<>>
    /\ sent = <<>>
    /\ issued = -1
    /\ observed = NoGraph

\* The Err arm of the decode as it would be if it returned the error the
\* way the recv_from arm does.
DropMalformed_returning ==
    /\ log' = "Malformed packet"
    /\ pc' = "Exited"
    /\ err' = "Malformed packet"
    /\ UNCHANGED <<server, ops, responses, sent>>

\* main.rs: rosc cannot decode the datagram: log and `continue 'recv`.
DropMalformed ==
    /\ log' = "Malformed packet"
    /\ UNCHANGED <<pc, err, server, ops, responses, sent>>

\* server.rs: apply_osc starts by parsing the whole packet; `?` there and in
\* main makes server() return the error the parse returned.
StartPacket(p) ==
    LET r == try_from_osc(p) IN
    /\ ops' = r.ops
    /\ pc' = CASE r.tag = "Panic" -> "Panicked"
               [] r.tag = "Err" -> "Exited"
               [] r.ops = <<>> -> "Sending"
               [] OTHER -> "Applying"
    /\ err' = r.err
    /\ UNCHANGED <<log, server, responses, sent>>

\* main.rs: recv_from returns one datagram and decode_udp decodes it or not.
Recv(d) ==
    /\ pc = "Idle"
    /\ received < MaxDatagrams
    /\ received' = received + 1
    /\ buf' = d
    /\ UNCHANGED <<issued, observed>>
    /\ IF d.bytes = "packet" THEN StartPacket(d.packet) ELSE DropMalformed

\* main.rs: recv_from fails; the error is logged and returned.
RecvFail ==
    /\ pc = "Idle"
    /\ pc' = "Exited"
    /\ err' = "recv_from failed"
    /\ log' = "recv_from failed"
    /\ UNCHANGED <<received, server, buf, ops, responses, sent, issued, observed>>

\* graph.rs: the operations whose arm of GraphOp::apply calls graph.node.
Creating == {"AddConstantF32", "AddConstantBool", "AddConstantString", "AddProcessor"}

\* One turn of the loop of apply_osc as it would be if a failed operation
\* undid what the session had become.
ApplyOp_rollback(eng) ==
    /\ pc = "Applying"
    /\ ops # <<>>
    /\ eng \in EngineOutcomes(Head(ops))
    /\ LET r == apply(Head(ops), server, eng) IN
       /\ server' = IF r.tag = "Ok" THEN r.s ELSE Server_new
       /\ err' = r.err
       /\ IF r.tag = "Ok"
          THEN /\ responses' = Append(responses, r.resp)
               /\ ops' = Tail(ops)
               /\ pc' = IF Tail(ops) = <<>> THEN "Sending" ELSE "Applying"
               /\ issued' = IF Head(ops).op \in Creating THEN r.resp.index ELSE issued
          ELSE /\ pc' = IF r.tag = "Err" THEN "Exited" ELSE "Panicked"
               /\ UNCHANGED <<ops, responses, issued>>
    /\ \E g \in IF server.live # {} THEN RenderReads(Head(ops), server, eng) ELSE {NoGraph} :
           observed' = g
    /\ UNCHANGED <<received, log, buf, sent>>

\* server.rs: one turn of the loop of apply_osc.  `?` returns the first
\* error, and through main's `?` ends server(); the operation that failed
\* stays at the head of ops and the responses collected so far stay in
\* responses, unsent.
ApplyOp(eng) ==
    /\ pc = "Applying"
    /\ ops # <<>>
    /\ eng \in EngineOutcomes(Head(ops))
    /\ LET r == apply(Head(ops), server, eng) IN
       /\ server' = r.s
       /\ err' = r.err
       /\ IF r.tag = "Ok"
          THEN /\ responses' = Append(responses, r.resp)
               /\ ops' = Tail(ops)
               /\ pc' = IF Tail(ops) = <<>> THEN "Sending" ELSE "Applying"
               /\ issued' = IF Head(ops).op \in Creating THEN r.resp.index ELSE issued
          ELSE /\ pc' = IF r.tag = "Err" THEN "Exited" ELSE "Panicked"
               /\ UNCHANGED <<ops, responses, issued>>
    /\ \E g \in IF server.live # {} THEN RenderReads(Head(ops), server, eng) ELSE {NoGraph} :
           observed' = g
    /\ UNCHANGED <<received, log, buf, sent>>

\* main.rs: one turn of the loop over resps: encode and send_to.
SendResp ==
    /\ pc = "Sending"
    /\ responses # <<>>
    /\ sent' = Append(sent, to_osc(Head(responses)))
    /\ responses' = Tail(responses)
    /\ UNCHANGED <<pc, err, received, log, server, buf, ops, issued, observed>>

\* main.rs: send_to fails and `?` returns the error.
SendFail ==
    /\ pc = "Sending"
    /\ responses # <<>>
    /\ pc' = "Exited"
    /\ err' = "send_to failed"
    /\ UNCHANGED <<received, log, server, buf, ops, responses, sent, issued, observed>>

\* main.rs: every response is sent; back to recv_from.
Finish ==
    /\ pc = "Sending"
    /\ responses = <<>>
    /\ pc' = "Idle"
    /\ buf' = NoDatagram
    /\ sent' = <<>>
    /\ observed' = NoGraph
    /\ UNCHANGED <<err, received, log, server, ops, responses, issued>>

Next ==
    \/ \E d \in Datagrams : Recv(d)
    \/ RecvFail
    \/ \E eng \in [play_ok : BOOLEAN, stop_ok : BOOLEAN, drop_stops : BOOLEAN,
                    lenient : BOOLEAN] : ApplyOp(eng)
    \/ SendResp
    \/ SendFail
    \/ Finish

Spec == Init /\ [][Next]_vars

\* ------------------------------------------------------------------- claims
\* The errors an operation can fail with, at parse or at apply.
ParseErrors == {"InvalidNameOrIndexError"} \cup {InvalidGraphOpError(a) : a \in UnknownAddrs}
ApplyErrors == {"UnknownProcessorError", "EngineError", "GraphError"}
ParsePanics == {"unreachable", "unwrap"}

\* The leaf messages of a packet, depth first, in the order they are encoded.
RECURSIVE Leaves(_)
RECURSIVE LeavesOfAll(_)
LeavesOfAll(content) ==
    IF content = <<>> THEN <<>> ELSE Leaves(Head(content)) \o LeavesOfAll(Tail(content))
Leaves(p) == IF p.kind = "Message" THEN <<p>> ELSE LeavesOfAll(p.content)

\* The request table: the addresses whose result is a node handle, and the
\* kind of node each node-creating operation creates.
HandleAddrs == {"/add_constant_f32", "/add_constant_bool", "/add_constant_string",
                "/add_processor", "/replace_node"}
CreatedKind(msg) == IF msg.addr = "/add_processor" THEN msg.args[1].s ELSE "Constant"

\* resp is the response the request table gives for leaf message msg.
Answers(resp, msg) ==
    IF msg.addr \in HandleAddrs
    THEN /\ resp.addr = "/response/node_index"
         /\ Len(resp.args) = 1
         /\ resp.args[1].t = "Int"
         /\ IF msg.addr = "/replace_node"
            THEN resp.args[1].i = msg.args[2].i
            ELSE /\ NodeExists(server, resp.args[1].i)
                 /\ KindOf(server, resp.args[1].i) = CreatedKind(msg)
    ELSE resp = OscMessage("/response/none", <<>>)

\* C1: a per-operation failure, at parse or at apply, never ends the
\* transport loop: the loop is never exited or crashed with an operation's
\* error.
C1_LoopSurvivesOperationFailure ==
    ~(pc \in {"Exited", "Panicked"} /\ err \in ParseErrors \cup ApplyErrors)

\* C2: when the k-th operation of a packet fails while applied, the k-1
\* results already produced are sent to the sender, in order.
C2_ProducedResultsAreSent ==
    (pc = "Exited" /\ err \in ApplyErrors) =>
        /\ Len(sent) >= Len(responses)
        /\ \A i \in 1..Len(responses) : sent[i] = to_osc(responses[i])

\* C3: a datagram that fails wire decoding is dropped: nothing is sent for
\* it, the session is unchanged and the loop is Idle again; a well-formed
\* datagram that follows is answered with one correct response per leaf.
C3_MalformedDatagramDropped ==
    /\ [][(received' # received /\ buf'.bytes = "malformed") =>
             /\ pc' = "Idle" /\ err' = ""
             /\ server' = server
             /\ sent' = <<>> /\ responses' = <<>>]_vars
    /\ [](( log = "Malformed packet" /\ pc = "Sending" /\ responses = <<>>) =>
             /\ Len(sent) = Len(Leaves(packet))
             /\ \A i \in 1..Len(sent) : Answers(sent[i], Leaves(packet)[i]))

\* C3's case: a well-formed packet with a leaf is answered in full after a
\* malformed datagram was dropped.
C3_Witness ==
    /\ log = "Malformed packet"
    /\ pc = "Sending"
    /\ responses = <<>>
    /\ sent # <<>>

\* C4: for a packet all of whose operations succeed, the responses sent and
\* still to send are one per leaf message, in depth-first order, each the
\* result of its leaf: a node handle for the node-creating operations and
\* ReplaceNode, Empty otherwise; when the loop is done sending, all are sent.
C4_OneResponsePerLeafInOrder ==
    pc = "Sending" =>
        LET leaves == Leaves(packet) IN
        /\ Len(sent) + Len(responses) = Len(leaves)
        /\ \A i \in 1..Len(sent) : Answers(sent[i], leaves[i])
        /\ \A i \in 1..Len(responses) :
               Answers(to_osc(responses[i]), leaves[Len(sent) + i])

\* C4's case: the bundle [Play, AddConstantF32, Stop] is answered Empty,
\* NodeHandle(n), Empty.
C4_Witness ==
    /\ pc = "Sending"
    /\ responses = <<>>
    /\ packet = OscBundle(<<OscMessage("/play", <<>>),
                            OscMessage("/add_constant_f32", <<OscFloat(1)>>),
                            OscMessage("/stop", <<>>)>>)
    /\ sent = <<OscMessage("/response/none", <<>>),
                OscMessage("/response/node_index", <<OscInt(Len(server.nodes) - 1)>>),
                OscMessage("/response/none", <<>>)>>

\* C4's case with nesting: a bundle inside a bundle is answered leaf by leaf.
C4_WitnessNested ==
    /\ pc = "Sending"
    /\ responses = <<>>
    /\ packet = OscBundle(<<OscMessage("/play", <<>>),
                            OscBundle(<<OscMessage("/add_constant_f32", <<OscFloat(1)>>),
                                        OscMessage("/play", <<>>)>>)>>)
    /\ Len(sent) = 3

\* The argument shapes of the request table: the wire types each recognized
\* address takes ("Port" is a string or an integer).
Signature(addr) ==
    CASE addr \in {"/play", "/stop"} -> <<>>
      [] addr = "/add_constant_f32" -> <<"Float">>
      [] addr = "/add_constant_bool" -> <<"Bool">>
      [] addr \in {"/add_constant_string", "/add_processor"} -> <<"String">>
      [] addr = "/add_to_mix" -> <<"Int", "Int", "Port">>
      [] addr = "/connect" -> <<"Int", "Port", "Int", "Port">>
      [] addr = "/replace_node" -> <<"Int", "Int">>
Recognized == {"/play", "/stop", "/add_constant_f32", "/add_constant_bool",
               "/add_constant_string", "/add_processor", "/add_to_mix", "/connect",
               "/replace_node"}
Fits(arg, type) == IF type = "Port" THEN arg.t \in {"String", "Int"} ELSE arg.t = type
ShapeMismatch(msg) ==
    /\ msg.kind = "Message"
    /\ msg.addr \in Recognized
    /\ LET sig == Signature(msg.addr) IN
       \/ Len(msg.args) # Len(sig)
       \/ \E i \in 1..Len(sig) : ~Fits(msg.args[i], sig[i])

\* C5: a message for a recognized address with the wrong number of arguments
\* or an argument of the wrong wire type is rejected with an error value:
\* the parse neither crashes nor accepts it.
C5_ShapeMismatchRejected ==
    ShapeMismatch(packet) => (pc = "Exited" /\ err \notin ParsePanics)

\* C6: once AddToMix(channel = k) has acted, the mixer holds at least k + 1
\* channels, created in index order, and the call did not fault.
C6_MixerGrowsToChannel ==
    (packet \in MixMsgs /\ pc # "Applying") =>
        /\ pc # "Panicked"
        /\ Len(server.mixer) >= packet.args[1].i + 1
        /\ \A i, j \in 1..Len(server.mixer) : i < j => server.mixer[i] < server.mixer[j]

\* The nodes a sum is made of: what feeds n through Add nodes.
RECURSIVE Terms(_, _)
Terms(n, fuel) ==
    IF fuel = 0 \/ KindOf(server, n) # "Add" THEN {n}
    ELSE UNION {Terms(e.src, fuel - 1) : e \in {x \in server.edges : x.dst = n}}
OutputNodes == {i \in 0..(Len(server.nodes) - 1) : KindOf(server, i) = "Output"}
Feeding(o) == {e.src : e \in {x \in server.edges : x.dst = o}}

\* C7: the node that feeds the playback outputs is the master, and the
\* master is the sum of all mixer channels allocated so far.
C7_MasterIsSumOfAllChannels ==
    /\ \A o \in OutputNodes : Feeding(o) = {server.master}
    /\ Terms(server.master, Len(server.nodes)) =
           {server.mixer[i] : i \in 1..Len(server.mixer)}

\* C8: Play applied while a render handle is held fails with an error and
\* leaves the handle and the running render session as they were.
C8_PlayWhileActiveFails ==
    [][(pc = "Applying" /\ Head(ops).op = "Play" /\ server.running_graph # 0) =>
          /\ pc' = "Exited"
          /\ server'.running_graph = server.running_graph
          /\ server'.live = server.live]_vars

\* C9: at most one render session is started and not yet stopped.
C9_AtMostOneRenderSession == Cardinality(server.live) <= 1

\* C10: when the engine call of play() or stop() fails, the operation fails
\* and the render handle is what it was before the call; a handle is
\* installed only by a play() that succeeded.
C10_EngineFailureKeepsHandle ==
    [][/\ (err' = "EngineError" /\ err # "EngineError") =>
             (pc' = "Exited" /\ server'.running_graph = server.running_graph)
       /\ (server'.running_graph \notin {0, server.running_graph}) =>
             (pc = "Applying" /\ Head(ops).op = "Play" /\ pc' # "Exited")]_vars

\* C11: the node handles returned by successive node-creating operations of
\* a session are strictly increasing, whatever is applied in between, mixer
\* growth included: each is greater than the last one returned.
C11_HandlesStrictlyIncrease ==
    [][(pc = "Applying" /\ Head(ops).op \in Creating /\ pc' \in {"Applying", "Sending"}) =>
          /\ Len(responses') = Len(responses) + 1
          /\ responses'[Len(responses')].r = "NodeIndex"
          /\ responses'[Len(responses')].index > issued
          /\ issued' = responses'[Len(responses')].index]_vars

\* C11's case: a handle was returned, AddToMix grew the mixer, and a second
\* handle was returned, greater than the first and not the next integer.
C11_Witness ==
    /\ pc = "Sending"
    /\ packet \in GrowBundles
    /\ Len(server.mixer) > 2
    /\ Len(responses) = 3
    /\ responses[1].r = "NodeIndex" /\ responses[3].r = "NodeIndex"
    /\ responses[3].index > responses[1].index + 1
    /\ issued = responses[3].index

\* Processor names a client may send: the registry and some that are not in it.
ProcNames == Registry \cup {"sine", "add", "SineOscillator ", ""}

\* The engine answering every call with success.
EngOk == [play_ok |-> TRUE, stop_ok |-> TRUE, drop_stops |-> TRUE, lenient |-> TRUE]

\* C12: in every state of the session, AddProcessor with a registry name
\* succeeds, makes one node of that kind and returns its index, which was
\* never returned before; with any other name it fails with
\* UnknownProcessor and leaves the session, and so the next handle, as it was.
C12_AddProcessorByRegistry ==
    \A name \in ProcNames :
        LET r == apply(AddProcessor(name), server, EngOk) IN
        IF name \in Registry
        THEN /\ r.tag = "Ok"
             /\ r.resp = RespNodeIndex(Len(server.nodes))
             /\ r.resp.index > issued
             /\ r.s = [server EXCEPT !.nodes = Append(@, name)]
        ELSE /\ r.tag = "Err"
             /\ r.err = "UnknownProcessorError"
             /\ r.s = server

\* C12's case: AddProcessor("SineOscillator") made a node, and
\* AddProcessor("sine") has just failed.
C12_Witness ==
    /\ pc = "Exited"
    /\ err = "UnknownProcessorError"
    /\ Head(ops) = AddProcessor("sine")
    /\ \E i \in 1..Len(server.nodes) : server.nodes[i] = "SineOscillator"

\* Operations a client encodes with GraphOp::to_osc and sends alone in a
\* datagram: one of every variant, ports of either variant.
ClientOps ==
    {Play, Stop, AddConstantF32(1), AddConstantBool(1), AddConstantString("hi"),
     AddProcessor("SineOscillator"),
     AddToMix(2, Inputs + Outputs, Index(0)),
     AddToMix(2, 0, Name("out")),
     Connect(FirstNode, Index(0), Inputs + Outputs + 1, Name("in")),
     Connect(FirstNode, Name("out"), Inputs + Outputs + 1, Name("nope")),
     ReplaceNode(FirstNode, FirstNode + 1)}

\* C13: decoding the message that encodes an operation yields exactly the
\* one-element sequence of that operation, for every variant and for ports
\* of either variant.
C13_EncodeDecodeRoundTrip ==
    [][\A op \in ClientOps :
          (received' # received /\ buf'.bytes = "packet" /\ buf'.packet = GraphOp_to_osc(op))
              => (pc' # "Panicked" /\ err' = "" /\ ops' = <<op>>)]_vars

\* The port arguments of the request table, by position, and the field of
\* the operation each one becomes.
PortPositions(addr) == IF addr = "/add_to_mix" THEN {3} ELSE {2, 4}
PortOf(op, k) == IF k = 4 THEN op.q ELSE op.p
PortMessage(m) ==
    /\ m.kind = "Message"
    /\ m.addr \in {"/add_to_mix", "/connect"}
    /\ Len(m.args) = Len(Signature(m.addr))
    /\ \A i \in 1..Len(m.args) : Signature(m.addr)[i] = "Int" => m.args[i].t = "Int"

\* C14: the port arguments of /add_to_mix and /connect are decoded alike: a
\* wire string becomes Name, a wire integer becomes Index, and any other
\* wire type is rejected with an error value.
C14_PortsDecodeAlike ==
    [][(received' # received /\ buf'.bytes = "packet" /\ PortMessage(buf'.packet)) =>
          LET m == buf'.packet IN
          IF \E k \in PortPositions(m.addr) : m.args[k].t \notin {"String", "Int"}
          THEN pc' = "Exited" /\ err' = "InvalidNameOrIndexError"
          ELSE /\ pc' = "Applying"
               /\ Len(ops') = 1
               /\ \A k \in PortPositions(m.addr) :
                      PortOf(ops'[1], k) = IF m.args[k].t = "String"
                                           THEN Name(m.args[k].s)
                                           ELSE Index(AsU32(m.args[k].i))]_vars

\* A port given by a name that the port table does not hold.
UnknownName(port, names) == port.v = "Name" /\ PositionOf(names, port.name) = -1

\* C15: Connect between two nodes of the graph whose source output or target
\* input is a name that is not in the port table of its node fails with the
\* graph's error, and the edge set after it is the edge set before it.
C15_ConnectUnknownPortFails ==
    [][(/\ pc = "Applying"
        /\ Head(ops).op = "Connect"
        /\ NodeExists(server, Head(ops).a) /\ NodeExists(server, Head(ops).b)
        /\ \/ UnknownName(Head(ops).p, OutputNames(KindOf(server, Head(ops).a)))
           \/ UnknownName(Head(ops).q, InputNames(KindOf(server, Head(ops).b)))) =>
          /\ pc' = "Exited"
          /\ err' = "GraphError"
          /\ server'.edges = server.edges
          /\ responses' = responses]_vars

\* C15's case: a Connect naming the input "nope" of an existing node, from an
\* existing node, has failed.
C15_Witness ==
    /\ pc = "Exited"
    /\ err = "GraphError"
    /\ Head(ops).op = "Connect"
    /\ Head(ops).q = Name("nope")
    /\ NodeExists(server, Head(ops).a) /\ NodeExists(server, Head(ops).b)

\* graph.rs: the operations that change the graph.
Structural == Creating \cup {"Connect", "ReplaceNode", "AddToMix"}

\* C16: while a render is active, a structural operation is one atomic step
\* for the render thread: the graph it reads during the operation is the
\* graph before the operation or the graph after it, nothing in between.
C16_StructuralOpsAtomic ==
    [][(pc = "Applying" /\ server.live # {} /\ Head(ops).op \in Structural) =>
          observed' \in {Graph(server), Graph(server')}]_vars

\* The request table: the operation kind of each address.
KindOfAddr(addr) ==
    CASE addr = "/play" -> "Play"
      [] addr = "/stop" -> "Stop"
      [] addr = "/add_constant_f32" -> "AddConstantF32"
      [] addr = "/add_constant_bool" -> "AddConstantBool"
      [] addr = "/add_constant_string" -> "AddConstantString"
      [] addr = "/add_processor" -> "AddProcessor"
      [] addr = "/add_to_mix" -> "AddToMix"
      [] addr = "/connect" -> "Connect"
      [] addr = "/replace_node" -> "ReplaceNode"

\* The error value that reports address addr as naming no operation.
UnknownOperation(addr) == "InvalidGraphOpError(" \o addr \o ")"

\* C17: a message whose address is not in the request table is rejected
\* with the unknown-operation error carrying that address and nothing is
\* applied to the session; a message of a table address that is accepted
\* becomes one operation, of the kind the table gives, and the nine kinds
\* differ.
C17_UnknownAddressRejected ==
    /\ [](\A a, b \in Recognized : KindOfAddr(a) = KindOfAddr(b) => a = b)
    /\ [][(received' # received /\ buf'.bytes = "packet" /\ buf'.packet.kind = "Message") =>
             LET m == buf'.packet IN
             IF m.addr \in Recognized
             THEN pc' = "Applying" => (Len(ops') = 1 /\ ops'[1].op = KindOfAddr(m.addr))
             ELSE /\ pc' = "Exited"
                  /\ err' = UnknownOperation(m.addr)
                  /\ ops' = <<>> /\ responses' = <<>>
                  /\ server' = server]_vars

\* C17's case: a session that has created a node has just rejected /bogus.
C17_Witness ==
    /\ pc = "Exited"
    /\ err = "InvalidGraphOpError(/bogus)"
    /\ packet = OscMessage("/bogus", <<>>)
    /\ NodeExists(server, FirstNode)

\* The connections into node n.
Incoming(s, n) == {e \in s.edges : e.dst = n}

\* C18: the mixer channel sequence is append-only: every step keeps the
\* channels it had, at their indices, and a step that grows the mixer leaves
\* the node and the incoming connections of each of them as they were.
C18_MixerAppendOnly ==
    [][/\ Len(server'.mixer) >= Len(server.mixer)
       /\ \A i \in 1..Len(server.mixer) : server'.mixer[i] = server.mixer[i]
       /\ Len(server'.mixer) > Len(server.mixer) =>
              \A i \in 1..Len(server.mixer) :
                  /\ KindOf(server', server.mixer[i]) = KindOf(server, server.mixer[i])
                  /\ Incoming(server', server.mixer[i]) = Incoming(server, server.mixer[i])]_vars

\* C18's case: the mixer has grown after a source was connected to one of
\* the first two channels.
C18_Witness ==
    /\ pc = "Sending"
    /\ packet \in MixMsgs
    /\ Len(server.mixer) > 2
    /\ \E i \in 1..2 : Incoming(server, server.mixer[i]) # {}

RejectedLeaf(m) ==
    \/ m.addr \notin Recognized
    \/ /\ m.addr = "/connect"
       /\ PortMessage(m)
       /\ \E k \in PortPositions(m.addr) : m.args[k].t \notin {"String", "Int"}

\* C20: a packet is parsed completely before any of its operations is
\* applied: when a leaf of the packet is rejected with an error value, and
\* the leaves before it have the shape of their address, no operation is
\* applied, the session is unchanged and nothing is sent.
C20_ParseBeforeApply ==
    [][(received' # received /\ buf'.bytes = "packet") =>
          LET leaves == Leaves(buf'.packet) IN
          (\E k \in 1..Len(leaves) :
               /\ RejectedLeaf(leaves[k])
               /\ \A j \in 1..(k - 1) : ~RejectedLeaf(leaves[j]) /\ ~ShapeMismatch(leaves[j]))
          => /\ pc' = "Exited"
             /\ err' \in ParseErrors
             /\ ops' = <<>> /\ responses' = <<>> /\ sent' = <<>>
             /\ server' = server]_vars

\* C20's case: a bundle whose first leaf is /play and whose last is /bogus
\* was rejected by a session that had created a node, and nothing renders.
C20_Witness ==
    /\ pc = "Exited"
    /\ err = "InvalidGraphOpError(/bogus)"
    /\ packet.kind = "Bundle"
    /\ Leaves(packet)[1].addr = "/play"
    /\ Leaves(packet)[3].addr = "/bogus"
    /\ responses = <<>> /\ sent = <<>>
    /\ NodeExists(server, FirstNode)
    /\ server.live = {}
====
